---- MODULE Spec2Model ----
(***************************************************************************)
(* The hierarchical task store of silverlake (class TaskManager): task     *)
(* records kept in an IndexedDB object store keyed by id, the id counter   *)
(* kept in the metadata store, and the undo/redo stacks kept on the        *)
(* TaskManager instance.  Every public operation runs to completion        *)
(* before the next one is issued, so each is one action.  Timestamps       *)
(* (deletedAt, the actions' timestamp, the notes' timestamp) are           *)
(* abstracted to a single stamp.                                           *)
(***************************************************************************)
EXTENDS Integers, Sequences, FiniteSets, TLC

\* ------------------------------------------------------------------ bounds
\* Ids the counter may hand out before create is no longer issued.
MaxId == 4
\* Operations issued in one run.
MaxOps == 4
\* this.maxHistorySize, 20 in the constructor, scaled down so that runs of
\* MaxOps operations fill the undo stack.
maxHistorySize == 2

\* ------------------------------------------------------------------ values
\* null as a parentTaskId
NoParent == 0
\* null as a dueDate
NoDate == 0
\* null as a priority, a project or a deletedAt
Null == "null"
\* an absent (undefined) field of the caller's taskData
Undefined == "undefined"
\* the stamp new Date().toISOString() produces
Stamp == "ts"
\* the result of a walk that never returns (a cycle in the links it follows)
Diverges == -1

Range(seq) == { seq[i] : i \in 1..Len(seq) }

\* Array.prototype.filter(id => id !== x)
RECURSIVE Without(_, _)
Without(seq, x) ==
    IF seq = <<>> THEN <<>>
    ELSE IF Head(seq) = x THEN Without(Tail(seq), x)
    ELSE <<Head(seq)>> \o Without(Tail(seq), x)

\* String.prototype.trim on a name held as a sequence of characters
RECURSIVE TrimLeft(_)
TrimLeft(n) == IF n # <<>> /\ Head(n) = " " THEN TrimLeft(Tail(n)) ELSE n

RECURSIVE TrimRight(_)
TrimRight(n) ==
    IF n # <<>> /\ n[Len(n)] = " " THEN TrimRight(SubSeq(n, 1, Len(n) - 1)) ELSE n

trim(n) == TrimRight(TrimLeft(n))

\* ------------------------------------------------------------------ state
VARIABLES
    store,      \* the 'tasks' object store: id -> task record
    nextId,     \* the metadata entry 'nextId' (absent reads as 1)
    undoStack,  \* this.undoStack
    redoStack,  \* this.redoStack
    last,       \* history: the operation issued last and how it ended
    pre,        \* history: the state in which that operation was issued
    nops,       \* history: operations issued since Init
    completedOnce,  \* history: ids whose stored status has been Completed
    issued,     \* history: the ids of the tasks createTask returned, in order
    importedAt, \* history: how many ids had been issued at the last importData
    dumps,      \* the caller's backups: what exportData has returned so far
    roundTrip,  \* history: the last recorded operation while only undo and
                \* redo, in turn, have followed it
    listed,     \* the task list the caller hands to a query of the renderer
    shown,      \* what that query returned
    calls       \* the createTask calls in progress at once: where each one
                \* stands and what it holds in its local variables

vars == <<store, nextId, undoStack, redoStack, last, pre, nops, completedOnce,
          issued, importedAt, dumps, roundTrip, listed, shown, calls>>

\* The program state as one value, so that an operation is a function on it.
Cur == [store |-> store, nextId |-> nextId,
        undoStack |-> undoStack, redoStack |-> redoStack]

\* getTaskById(id) returns a record (not undefined)
Has(s, id) == id \in DOMAIN s

\* saveTask: objectStore.put(task), keyed by task.id
saveTask(s, task) == (task.id :> task) @@ s

\* deleteTaskById: objectStore.delete(taskId)
deleteTaskById(s, taskId) == [i \in DOMAIN s \ {taskId} |-> s[i]]

\* ------------------------------------------------------------------ walks
\* getTaskDepth: the while loop up the parentTaskId chain.  A chain that is
\* still going after more links than there are records is on a cycle.
RECURSIVE depthLoop(_, _, _, _)
depthLoop(s, current, depth, fuel) ==
    IF current.parentTaskId = NoParent THEN depth
    ELSE IF fuel = 0 THEN Diverges
    ELSE IF ~Has(s, current.parentTaskId) THEN depth + 1
    ELSE depthLoop(s, s[current.parentTaskId], depth + 1, fuel - 1)

getTaskDepth(s, task) == depthLoop(s, task, 0, Cardinality(DOMAIN s) + 1)

Max(a, b) == IF a >= b THEN a ELSE b

\* getMaxChildDepth: recursion down childTaskIds; children that are not in
\* the store are skipped.
RECURSIVE maxChildLoop(_, _, _, _)
RECURSIVE maxChildDepthF(_, _, _)
maxChildDepthF(s, task, fuel) ==
    IF Len(task.childTaskIds) = 0 THEN 0
    ELSE IF fuel = 0 THEN Diverges
    ELSE maxChildLoop(s, task.childTaskIds, 0, fuel - 1)

maxChildLoop(s, ids, maxDepth, fuel) ==
    IF ids = <<>> THEN maxDepth
    ELSE IF ~Has(s, Head(ids)) THEN maxChildLoop(s, Tail(ids), maxDepth, fuel)
    ELSE LET below == maxChildDepthF(s, s[Head(ids)], fuel)
         IN  IF below = Diverges THEN Diverges
             ELSE maxChildLoop(s, Tail(ids), Max(maxDepth, 1 + below), fuel)

getMaxChildDepth(s, task) == maxChildDepthF(s, task, Cardinality(DOMAIN s) + 1)

\* isDescendant(taskId, ancestorId): "true", "false", or "diverges" when the
\* recursion down childTaskIds never returns.
RECURSIVE isDescendantF(_, _, _, _)
RECURSIVE isDescendantLoop(_, _, _, _)
isDescendantF(s, taskId, ancestorId, fuel) ==
    IF ~Has(s, taskId) THEN "false"
    ELSE IF ~Has(s, ancestorId) THEN "false"
    ELSE IF taskId \in Range(s[ancestorId].childTaskIds) THEN "true"
    ELSE IF fuel = 0 THEN "diverges"
    ELSE isDescendantLoop(s, taskId, s[ancestorId].childTaskIds, fuel - 1)

isDescendantLoop(s, taskId, ids, fuel) ==
    IF ids = <<>> THEN "false"
    ELSE LET r == isDescendantF(s, taskId, Head(ids), fuel)
         IN  IF r = "false" THEN isDescendantLoop(s, taskId, Tail(ids), fuel) ELSE r

isDescendant(s, taskId, ancestorId) ==
    isDescendantF(s, taskId, ancestorId, Cardinality(DOMAIN s) + 1)

\* ------------------------------------------------------------------ history
\* recordAction without its last statement: the redo list is left as it is.
recordActionKeepingRedo(st, action) ==
    LET pushed == Append(st.undoStack, action)
    IN  [st EXCEPT !.undoStack = IF Len(pushed) > maxHistorySize
                                 THEN Tail(pushed) ELSE pushed]

\* recordAction: push, drop the oldest entry above maxHistorySize, clear redo
recordAction(st, action) ==
    LET pushed == Append(st.undoStack, action)
    IN  [st EXCEPT !.undoStack = IF Len(pushed) > maxHistorySize
                                 THEN Tail(pushed) ELSE pushed,
                   !.redoStack = <<>>]

\* ------------------------------------------------------------------ create
\* getNextId with newNextId = nextId: the counter is read and put back as it was.
getNextIdNoIncrement(st) == [id |-> st.nextId, st |-> st]

\* getNextId: the stored counter is returned and the counter plus one is stored
getNextId(st) == [id |-> st.nextId, st |-> [st EXCEPT !.nextId = @ + 1]]

\* The record createTask builds from the caller's taskData.
NewTask(taskId, taskData) ==
    [id |-> taskId,
     name |-> trim(taskData.name),
     dueDate |-> taskData.dueDate,
     status |-> IF taskData.status = Undefined THEN "Not Started" ELSE taskData.status,
     project |-> taskData.project,
     priority |-> IF taskData.priority \in {Undefined, Null} THEN "Medium"
                  ELSE taskData.priority,
     notes |-> taskData.notes,
     parentTaskId |-> taskData.parentTaskId,
     childTaskIds |-> <<>>,
     deleted |-> FALSE,
     deletedAt |-> Null]

\* createTask's second step: append the new id to the parent's childTaskIds
AttachChild(s, parentId, taskId) ==
    IF parentId # NoParent /\ Has(s, parentId)
          /\ taskId \notin Range(s[parentId].childTaskIds)
    THEN saveTask(s, [s[parentId] EXCEPT !.childTaskIds = Append(@, taskId)])
    ELSE s

\* createTask without its validation: whatever taskData names is stored.
createTaskUnvalidated(st, taskData) ==
    LET next == getNextId(st)
        task == NewTask(next.id, taskData)
        s1 == saveTask(st.store, task)
        s2 == AttachChild(s1, task.parentTaskId, task.id)
    IN  [st |-> recordAction([next.st EXCEPT !.store = s2],
                             [type |-> "create", taskId |-> task.id]),
         outcome |-> "ok", task |-> task]

createTask(st, taskData) ==
    LET p == taskData.parentTaskId
    IN  IF taskData.name = <<>> \/ trim(taskData.name) = <<>>
        THEN [st |-> st, outcome |-> "NameRequired"]
        ELSE IF p # NoParent /\ ~Has(st.store, p)
        THEN [st |-> st, outcome |-> "ParentNotFound"]
        ELSE IF p # NoParent /\ getTaskDepth(st.store, st.store[p]) = Diverges
        THEN [st |-> st, outcome |-> "Hangs"]
        ELSE IF p # NoParent /\ getTaskDepth(st.store, st.store[p]) >= 2
        THEN [st |-> st, outcome |-> "DepthExceeded"]
        ELSE LET next == getNextId(st)
                 task == NewTask(next.id, taskData)
                 s1 == saveTask(st.store, task)
                 s2 == AttachChild(s1, task.parentTaskId, task.id)
             IN  [st |-> recordAction([next.st EXCEPT !.store = s2],
                                      [type |-> "create", taskId |-> task.id]),
                  outcome |-> "ok", task |-> task]

\* ------------------------------------------------------------------ update
\* The fields updateTask saves as previousState / newState.
StateOf(task) ==
    [name |-> task.name, dueDate |-> task.dueDate, status |-> task.status,
     project |-> task.project, priority |-> task.priority, notes |-> task.notes,
     parentTaskId |-> task.parentTaskId]

\* Object.keys(updates).forEach: every key but id and childTaskIds is copied
ApplyUpdates(task, updates) ==
    [k \in DOMAIN task |->
        IF k \in DOMAIN updates /\ k \notin {"id", "childTaskIds"}
        THEN updates[k] ELSE task[k]]

\* updates.parentTaskId !== undefined && updates.parentTaskId !== task.parentTaskId
ChangesParent(task, updates) ==
    /\ "parentTaskId" \in DOMAIN updates
    /\ updates.parentTaskId # task.parentTaskId

\* "Remove from old parent": the stored old parent loses taskId
DetachFromParent(s, parentId, taskId) ==
    IF parentId # NoParent /\ Has(s, parentId)
    THEN saveTask(s, [s[parentId] EXCEPT !.childTaskIds = Without(@, taskId)])
    ELSE s

\* completeAllDescendants: children not yet Completed are completed, saved,
\* and descended into; a child already Completed is passed over.
RECURSIVE completeLoop(_, _)
completeLoop(s, ids) ==
    IF ids = <<>> THEN s
    ELSE LET childId == Head(ids)
         IN  IF Has(s, childId) /\ s[childId].status # "Completed"
             THEN LET child == [s[childId] EXCEPT !.status = "Completed",
                                                  !.priority = Null]
                  IN  completeLoop(completeLoop(saveTask(s, child), child.childTaskIds),
                                   Tail(ids))
             ELSE completeLoop(s, Tail(ids))

completeAllDescendants(s, task) == completeLoop(s, task.childTaskIds)

\* areAllChildrenCompleted: false for no children, for a missing child, and
\* for a child that is not Completed
areAllChildrenCompleted(s, task) ==
    /\ Len(task.childTaskIds) # 0
    /\ \A c \in Range(task.childTaskIds) : Has(s, c) /\ s[c].status = "Completed"

\* checkAndCompleteParent: one level up, status only
checkAndCompleteParent(s, task) ==
    IF task.status # "Completed" \/ task.parentTaskId = NoParent THEN s
    ELSE IF ~Has(s, task.parentTaskId) \/ s[task.parentTaskId].status = "Completed"
    THEN s
    ELSE IF areAllChildrenCompleted(s, s[task.parentTaskId])
    THEN saveTask(s, [s[task.parentTaskId] EXCEPT !.status = "Completed"])
    ELSE s

\* DropPriorityIfCompleted without its status test: the priority is removed
\* whatever the status.
DropPriorityAlways(task) == [task EXCEPT !.priority = Null]

\* "Auto-remove priority when task is completed"
DropPriorityIfCompleted(task) ==
    IF task.status = "Completed" /\ task.priority # Null
    THEN [task EXCEPT !.priority = Null] ELSE task

\* The part of updateTask after the parent validation: apply, cascade, save,
\* record, auto-complete the parent.  task is the copy read at the start.
FinishUpdate(st, s, task, updates) ==
    LET changed == DropPriorityIfCompleted(ApplyUpdates(task, updates))
        s1 == IF changed.status = "Completed"
              THEN completeAllDescendants(s, changed) ELSE s
        s2 == saveTask(s1, changed)
        st2 == recordAction([st EXCEPT !.store = s2],
                            [type |-> "modify", taskId |-> changed.id,
                             previousState |-> StateOf(task),
                             newState |-> StateOf(changed)])
    IN  [st |-> [st2 EXCEPT !.store = checkAndCompleteParent(s2, changed)],
         outcome |-> "ok"]

updateTask(st, taskId, updates) ==
    IF ~Has(st.store, taskId) THEN [st |-> st, outcome |-> "NotFound"]
    ELSE
    LET task == st.store[taskId]
        np == updates.parentTaskId
    IN  IF ~ChangesParent(task, updates) THEN FinishUpdate(st, st.store, task, updates)
        ELSE
        LET s1 == DetachFromParent(st.store, task.parentTaskId, taskId)
            stop(o) == [st |-> [st EXCEPT !.store = s1], outcome |-> o]
        IN  IF np = NoParent THEN FinishUpdate(st, s1, task, updates)
            ELSE IF ~Has(s1, np) THEN stop("ParentNotFound")
            ELSE IF getTaskDepth(s1, s1[np]) = Diverges THEN stop("Hangs")
            ELSE IF getMaxChildDepth(s1, task) = Diverges THEN stop("Hangs")
            ELSE IF getTaskDepth(s1, s1[np]) + 1 + getMaxChildDepth(s1, task) > 2
            THEN stop("DepthExceeded")
            ELSE IF isDescendant(s1, np, task.id) = "diverges" THEN stop("Hangs")
            ELSE IF isDescendant(s1, np, task.id) = "true" THEN stop("Circular")
            ELSE FinishUpdate(st, AttachChild(s1, np, taskId), task, updates)

\* addNote: push {timestamp, content} onto task.notes and save the task; no
\* action is recorded.
addNote(st, taskId, noteContent) ==
    IF ~Has(st.store, taskId) THEN [st |-> st, outcome |-> "NotFound"]
    ELSE LET task == st.store[taskId]
             note == [timestamp |-> Stamp, content |-> noteContent]
         IN  [st |-> [st EXCEPT !.store =
                        saveTask(@, [task EXCEPT !.notes = Append(@, note)])],
              outcome |-> "ok"]

\* ------------------------------------------------------------------ delete
\* "Convert children to standalone tasks": each stored child loses its parent
RECURSIVE orphanLoop(_, _)
orphanLoop(s, ids) ==
    IF ids = <<>> THEN s
    ELSE IF Has(s, Head(ids))
    THEN orphanLoop(saveTask(s, [s[Head(ids)] EXCEPT !.parentTaskId = NoParent]),
                    Tail(ids))
    ELSE orphanLoop(s, Tail(ids))

\* deleteTask(taskId, deleteChildren, isRootDelete).  task is the copy read at
\* the start: it is saved last, with the childTaskIds it had then.  A child
\* that is not in the store makes the recursive call throw, which ends the
\* whole call with the writes made so far.
RECURSIVE deleteTaskF(_, _, _, _, _)
RECURSIVE deleteChildrenLoop(_, _, _, _)
deleteTaskF(st, taskId, deleteChildren, isRootDelete, fuel) ==
    IF ~Has(st.store, taskId) THEN [st |-> st, ids |-> <<>>, outcome |-> "NotFound"]
    ELSE
    LET task == st.store[taskId]
        kids == IF Len(task.childTaskIds) = 0
                THEN [st |-> st, ids |-> <<taskId>>, outcome |-> "ok"]
                ELSE IF deleteChildren
                THEN deleteChildrenLoop(st, task.childTaskIds, <<taskId>>, fuel)
                ELSE [st |-> [st EXCEPT !.store = orphanLoop(@, task.childTaskIds)],
                      ids |-> <<taskId>>, outcome |-> "ok"]
    IN  IF kids.outcome # "ok" THEN kids
        ELSE
        LET s1 == DetachFromParent(kids.st.store, task.parentTaskId, taskId)
            s2 == saveTask(s1, [task EXCEPT !.deleted = TRUE, !.deletedAt = Stamp])
            st2 == [kids.st EXCEPT !.store = s2]
        IN  [st |-> IF isRootDelete
                    THEN recordAction(st2, [type |-> "delete", taskId |-> task.id,
                                            deletedTaskIds |-> kids.ids])
                    ELSE st2,
             ids |-> kids.ids, outcome |-> "ok"]

deleteChildrenLoop(st, ids, acc, fuel) ==
    IF ids = <<>> THEN [st |-> st, ids |-> acc, outcome |-> "ok"]
    ELSE IF fuel = 0 THEN [st |-> st, ids |-> acc, outcome |-> "Hangs"]
    ELSE LET r == deleteTaskF(st, Head(ids), TRUE, FALSE, fuel - 1)
         IN  IF r.outcome # "ok" THEN [st |-> r.st, ids |-> acc, outcome |-> r.outcome]
             ELSE deleteChildrenLoop(r.st, Tail(ids), acc \o r.ids, fuel)

deleteTask(st, taskId, deleteChildren) ==
    deleteTaskF(st, taskId, deleteChildren, TRUE, Cardinality(DOMAIN st.store) + 1)

\* deleteTaskWithoutHistory: absent and already deleted tasks are passed over
deleteTaskWithoutHistory(s, taskId) ==
    IF ~Has(s, taskId) THEN s
    ELSE IF s[taskId].deleted THEN s
    ELSE LET task == s[taskId]
         IN  saveTask(DetachFromParent(s, task.parentTaskId, taskId),
                      [task EXCEPT !.deleted = TRUE, !.deletedAt = Stamp])

\* ------------------------------------------------------------------ restore
\* Undelete without its second step: the marker is cleared and the parent is
\* left as it is.
UndeleteWithoutAttach(s, taskId) ==
    saveTask(s, [s[taskId] EXCEPT !.deleted = FALSE, !.deletedAt = Null])

\* The writes restoreTask and restoreTaskWithoutHistory share: clear the
\* marker, then re-attach to a parent that is stored and not deleted.
Undelete(s, taskId) ==
    LET task == [s[taskId] EXCEPT !.deleted = FALSE, !.deletedAt = Null]
        s1 == saveTask(s, task)
        p == task.parentTaskId
    IN  IF p # NoParent /\ Has(s1, p) /\ ~s1[p].deleted
        THEN AttachChild(s1, p, taskId) ELSE s1

restoreTask(st, taskId) ==
    IF ~Has(st.store, taskId) THEN [st |-> st, outcome |-> "NotFound"]
    ELSE IF ~st.store[taskId].deleted THEN [st |-> st, outcome |-> "NotDeleted"]
    ELSE [st |-> recordAction([st EXCEPT !.store = Undelete(@, taskId)],
                              [type |-> "restore", taskId |-> taskId]),
          outcome |-> "ok"]

restoreTaskWithoutHistory(s, taskId) ==
    IF ~Has(s, taskId) THEN s
    ELSE IF ~s[taskId].deleted THEN s
    ELSE Undelete(s, taskId)

\* ------------------------------------------------------------------ purge
\* purgeTask: deleted children listed in the copy read at the start are
\* purged first, then the record is erased.
RECURSIVE purgeTaskF(_, _, _)
RECURSIVE purgeChildrenLoop(_, _, _)
purgeTaskF(s, taskId, fuel) ==
    IF ~Has(s, taskId) THEN [s |-> s, outcome |-> "ok"]
    ELSE IF ~s[taskId].deleted THEN [s |-> s, outcome |-> "NotInTrash"]
    ELSE LET r == purgeChildrenLoop(s, s[taskId].childTaskIds, fuel)
         IN  IF r.outcome # "ok" THEN r
             ELSE [s |-> deleteTaskById(r.s, taskId), outcome |-> "ok"]

purgeChildrenLoop(s, ids, fuel) ==
    IF ids = <<>> THEN [s |-> s, outcome |-> "ok"]
    ELSE IF Has(s, Head(ids)) /\ s[Head(ids)].deleted
    THEN IF fuel = 0 THEN [s |-> s, outcome |-> "Hangs"]
         ELSE LET r == purgeTaskF(s, Head(ids), fuel - 1)
              IN  IF r.outcome # "ok" THEN r
                  ELSE purgeChildrenLoop(r.s, Tail(ids), fuel)
    ELSE purgeChildrenLoop(s, Tail(ids), fuel)

purgeTask(st, taskId) ==
    LET r == purgeTaskF(st.store, taskId, Cardinality(DOMAIN st.store) + 1)
    IN  [st |-> [st EXCEPT !.store = r.s], outcome |-> r.outcome]

\* ------------------------------------------------------------------ undo / redo
\* updateTaskWithoutHistory: no validation, no cascade; the caller has
\* checked that the task is stored.
updateTaskWithoutHistory(s, taskId, updates) ==
    LET task == s[taskId]
        s1 == IF ChangesParent(task, updates)
              THEN AttachChild(DetachFromParent(s, task.parentTaskId, taskId),
                               updates.parentTaskId, taskId)
              ELSE s
    IN  saveTask(s1, ApplyUpdates(task, updates))

\* undo of a delete: restoreTaskWithoutHistory over deletedTaskIds, last first
RECURSIVE restoreAllReversed(_, _)
restoreAllReversed(s, ids) ==
    IF ids = <<>> THEN s
    ELSE restoreAllReversed(restoreTaskWithoutHistory(s, ids[Len(ids)]),
                            SubSeq(ids, 1, Len(ids) - 1))

\* redo of a delete: deleteTaskWithoutHistory over deletedTaskIds, first first
RECURSIVE deleteAll(_, _)
deleteAll(s, ids) ==
    IF ids = <<>> THEN s
    ELSE deleteAll(deleteTaskWithoutHistory(s, Head(ids)), Tail(ids))

\* undo of a create or of a restore: detach from the parent, mark deleted
Redelete(s, taskId) ==
    IF ~Has(s, taskId) THEN s
    ELSE LET task == s[taskId]
         IN  saveTask(DetachFromParent(s, task.parentTaskId, taskId),
                      [task EXCEPT !.deleted = TRUE, !.deletedAt = Stamp])

\* EmptyHistory with both lists reset before the throw.
EmptyHistoryAfterReset(st, message) ==
    [st |-> [st EXCEPT !.undoStack = <<>>, !.redoStack = <<>>], outcome |-> message]

\* The first statement of undo and of redo: the list is empty, throw
EmptyHistory(st, message) == [st |-> st, outcome |-> message]

undo(st) ==
    IF Len(st.undoStack) = 0 THEN EmptyHistory(st, "NothingToUndo")
    ELSE
    LET action == st.undoStack[Len(st.undoStack)]
        popped == [st EXCEPT !.undoStack = SubSeq(@, 1, Len(@) - 1)]
        done(s) == [st |-> [popped EXCEPT !.store = s,
                                          !.redoStack = Append(@, action)],
                    outcome |-> "ok"]
    IN  CASE action.type = "delete" ->
                done(restoreAllReversed(st.store, action.deletedTaskIds))
          [] action.type = "modify" ->
                IF ~Has(st.store, action.taskId)
                THEN [st |-> st, outcome |-> "NotFound"]
                ELSE done(updateTaskWithoutHistory(st.store, action.taskId,
                                                   action.previousState))
          [] action.type = "create" -> done(Redelete(st.store, action.taskId))
          [] action.type = "restore" -> done(Redelete(st.store, action.taskId))

\* redo of a create or of a restore goes through restoreTask, which records
\* a restore action of its own before redo pushes the redone action.
redo(st) ==
    IF Len(st.redoStack) = 0 THEN EmptyHistory(st, "NothingToRedo")
    ELSE
    LET action == st.redoStack[Len(st.redoStack)]
        popped == [st EXCEPT !.redoStack = SubSeq(@, 1, Len(@) - 1)]
        done(s) == [st |-> [popped EXCEPT !.store = s,
                                          !.undoStack = Append(@, action)],
                    outcome |-> "ok"]
    IN  CASE action.type = "delete" ->
                done(deleteAll(st.store, action.deletedTaskIds))
          [] action.type = "modify" ->
                IF ~Has(st.store, action.taskId)
                THEN [st |-> st, outcome |-> "NotFound"]
                ELSE done(updateTaskWithoutHistory(st.store, action.taskId,
                                                   action.newState))
          [] action.type \in {"create", "restore"} ->
                LET r == restoreTask(popped, action.taskId)
                IN  IF r.outcome # "ok" THEN [st |-> st, outcome |-> r.outcome]
                    ELSE [st |-> [r.st EXCEPT !.undoStack = Append(@, action)],
                          outcome |-> "ok"]

\* ------------------------------------------------------------------ reads
\* The keys of a set of ids in ascending order, as objectStore.getAll() lists them.
RECURSIVE Ascending(_)
Ascending(ids) ==
    IF ids = {} THEN <<>>
    ELSE LET least == CHOOSE x \in ids : \A y \in ids : x <= y
         IN  <<least>> \o Ascending(ids \ {least})

\* getAllTasks(includeDeleted): every record, or those not marked deleted
getAllTasks(s, includeDeleted) ==
    LET ids == Ascending({ t \in DOMAIN s : includeDeleted \/ ~s[t].deleted })
    IN  [i \in 1..Len(ids) |-> s[ids[i]]]

\* getDeletedTasks: the records marked deleted
getDeletedTasks(s) ==
    LET ids == Ascending({ t \in DOMAIN s : s[t].deleted })
    IN  [i \in 1..Len(ids) |-> s[ids[i]]]

\* ------------------------------------------------------------------ queries
\* String.prototype.toLowerCase, on the status and priority names
toLowerCase(x) ==
    CASE x = "Not Started" -> "not started"
      [] x = "In Progress" -> "in progress"
      [] x = "Completed" -> "completed"
      [] x = "Critical" -> "critical"
      [] x = "High" -> "high"
      [] x = "Medium" -> "medium"
      [] x = "Low" -> "low"
      [] x = "X" -> "x"
      [] OTHER -> x

\* "if (negate ? matches : !matches) return false": the field lets the task
\* through when matches differs from negate.
Passes(matches, negate) == ~(IF negate THEN matches ELSE ~matches)

\* The callback of allTasks.filter.  A filter is a record with one entry per
\* field: on says whether filters.<field> is defined, value is a set of ids for
\* the id field (a single id is the singleton) and a string for the others.
MatchesFilters(task, filters) ==
    /\ filters.id.on =>
          Passes(task.id \in filters.id.value, filters.id.negate)
    /\ filters.project.on =>
          Passes(task.project # Null
                   /\ toLowerCase(task.project) = toLowerCase(filters.project.value),
                 filters.project.negate)
    /\ filters.priority.on =>
          Passes(task.priority # Null
                   /\ toLowerCase(task.priority) = toLowerCase(filters.priority.value),
                 filters.priority.negate)
    /\ filters.status.on =>
          Passes(toLowerCase(task.status) = toLowerCase(filters.status.value),
                 filters.status.negate)

\* allTasks.find(t => t.id === id) finds a task: allTasks is getAllTasks()
Found(s, id) == Has(s, id) /\ ~s[id].deleted

\* "Include all ancestors": the while loop up parentTaskId.  It has no exit on
\* a cycle of non-deleted tasks; Diverges in the set stands for that.
RECURSIVE ancestorsLoop(_, _, _, _, _)
ancestorsLoop(s, resultIds, current, additionalTasks, fuel) ==
    IF current.parentTaskId = NoParent THEN additionalTasks
    ELSE IF fuel = 0 THEN additionalTasks \cup {Diverges}
    ELSE LET added == IF current.parentTaskId \in resultIds THEN additionalTasks
                      ELSE additionalTasks \cup {current.parentTaskId}
         IN  IF ~Found(s, current.parentTaskId) THEN added
             ELSE ancestorsLoop(s, resultIds, s[current.parentTaskId], added, fuel - 1)

\* addDescendants: the recursion down childTaskIds.  On a cycle of child lists
\* it recurses until the stack is exhausted; Diverges stands for that.
RECURSIVE addDescendants(_, _, _, _, _)
addDescendants(s, resultIds, childIds, additionalTasks, fuel) ==
    IF childIds = <<>> THEN additionalTasks
    ELSE IF fuel = 0 THEN additionalTasks \cup {Diverges}
    ELSE LET childId == Head(childIds)
             added == IF childId \in resultIds THEN additionalTasks
                      ELSE additionalTasks \cup {childId}
             below == IF Found(s, childId)
                      THEN addDescendants(s, resultIds, s[childId].childTaskIds,
                                          added, fuel - 1)
                      ELSE added
         IN  addDescendants(s, resultIds, Tail(childIds), below, fuel)

\* "for (const task of matchedTasks)": ancestors, then descendants, of each
RECURSIVE familyLoop(_, _, _, _)
familyLoop(s, resultIds, matchedTasks, additionalTasks) ==
    IF matchedTasks = <<>> THEN additionalTasks
    ELSE LET task == Head(matchedTasks)
             fuel == Cardinality(DOMAIN s) + 1
             up == ancestorsLoop(s, resultIds, task, additionalTasks, fuel)
             down == addDescendants(s, resultIds, task.childTaskIds, up, fuel)
         IN  familyLoop(s, resultIds, Tail(matchedTasks), down)

\* getTaskDepthSync: the depth along parentTaskId within allTasks
RECURSIVE depthSyncLoop(_, _, _, _)
depthSyncLoop(s, current, depth, fuel) ==
    IF current.parentTaskId = NoParent THEN depth
    ELSE IF fuel = 0 THEN Diverges
    ELSE IF ~Found(s, current.parentTaskId) THEN depth + 1
    ELSE depthSyncLoop(s, s[current.parentTaskId], depth + 1, fuel - 1)

getTaskDepthSync(s, task) == depthSyncLoop(s, task, 0, Cardinality(DOMAIN s) + 1)

\* Array.prototype.sort with a comparator that returns a number, compare[a, b]
\* for the elements a and b: a stable insertion sort, x going before the
\* first element it compares below.
sort(tasks, compare) ==
    LET RECURSIVE insertSorted(_, _)
        insertSorted(sorted, x) ==
            IF sorted = <<>> THEN <<x>>
            ELSE IF compare[x, Head(sorted)] < 0 THEN <<x>> \o sorted
            ELSE <<Head(sorted)>> \o insertSorted(Tail(sorted), x)
        RECURSIVE sortLoop(_)
        sortLoop(rest) ==
            IF rest = <<>> THEN <<>>
            ELSE insertSorted(sortLoop(SubSeq(rest, 1, Len(rest) - 1)), rest[Len(rest)])
    IN  sortLoop(tasks)

\* filterTasks: the matching tasks, their ancestors and descendants, sorted by
\* depth and then by id.  The outcome is "diverges" when a walk does not end.
filterTasks(s, filters) ==
    LET allTasks == getAllTasks(s, FALSE)
        matchedTasks == SelectSeq(allTasks, LAMBDA task : MatchesFilters(task, filters))
        resultIds == { matchedTasks[i].id : i \in 1..Len(matchedTasks) }
        additionalTasks == familyLoop(s, resultIds, matchedTasks, {})
        additionalFound == Ascending({ t \in additionalTasks : Found(s, t) })
        finalTasks == matchedTasks \o [i \in 1..Len(additionalFound) |-> s[additionalFound[i]]]
        byDepthThenId == [a \in Range(finalTasks), b \in Range(finalTasks) |->
            IF getTaskDepthSync(s, a) # getTaskDepthSync(s, b)
            THEN getTaskDepthSync(s, a) - getTaskDepthSync(s, b)
            ELSE a.id - b.id]
    IN  IF \/ Diverges \in additionalTasks
           \/ \E i \in 1..Len(finalTasks) : getTaskDepthSync(s, finalTasks[i]) = Diverges
        THEN [outcome |-> "diverges", tasks |-> <<>>]
        ELSE [outcome |-> "ok", tasks |-> sort(finalTasks, byDepthThenId)]

\* priorityOrder of sortByPriority
priorityOrder(priority) ==
    CASE priority = "Critical" -> 0
      [] priority = "High" -> 1
      [] priority = "Medium" -> 2
      [] priority = "Low" -> 3

\* The comparator without its due-date part: tasks of one priority compare equal.
comparePriorityOnly(a, b) ==
    IF a.priority = Null /\ b.priority # Null THEN 1
    ELSE IF a.priority # Null /\ b.priority = Null THEN -1
    ELSE IF a.priority = Null /\ b.priority = Null THEN b.id - a.id
    ELSE priorityOrder(a.priority) - priorityOrder(b.priority)

\* The comparator of sortByPriority.  A due date is a day number, NoDate when
\* the task has none; dateA - dateB is the difference of the two days.
comparePriority(a, b) ==
    IF a.priority = Null /\ b.priority # Null THEN 1
    ELSE IF a.priority # Null /\ b.priority = Null THEN -1
    ELSE IF a.priority = Null /\ b.priority = Null THEN b.id - a.id
    ELSE IF priorityOrder(a.priority) # priorityOrder(b.priority)
    THEN priorityOrder(a.priority) - priorityOrder(b.priority)
    ELSE IF a.dueDate = NoDate /\ b.dueDate = NoDate THEN 0
    ELSE IF a.dueDate = NoDate THEN 1
    ELSE IF b.dueDate = NoDate THEN -1
    ELSE a.dueDate - b.dueDate

\* sortByPriority: [...tasks].sort(comparator)
sortByPriority(tasks) ==
    sort(tasks, [a \in Range(tasks), b \in Range(tasks) |-> comparePriority(a, b)])

\* taskMap.has(id) and taskMap.get(id) of getTasksHierarchical: new Map(...)
\* keeps, for an id, the task listed last with it.
taskMapHas(tasks, id) == \E i \in 1..Len(tasks) : tasks[i].id = id

taskMapGet(tasks, id) ==
    tasks[CHOOSE i \in 1..Len(tasks) :
            /\ tasks[i].id = id
            /\ \A j \in (i + 1)..Len(tasks) : tasks[j].id # id]

\* addTaskWithDescendants: the task, then each listed child not yet added,
\* with its own descendants.  acc holds result and addedIds.
RECURSIVE addTaskWithDescendants(_, _, _)
RECURSIVE addChildrenLoop(_, _, _)
addTaskWithDescendants(tasks, task, acc) ==
    IF task.id \in acc.addedIds THEN acc
    ELSE addChildrenLoop(tasks, task.childTaskIds,
                         [result |-> Append(acc.result, task),
                          addedIds |-> acc.addedIds \cup {task.id}])

addChildrenLoop(tasks, childIds, acc) ==
    IF childIds = <<>> THEN acc
    ELSE LET childId == Head(childIds)
         IN  addChildrenLoop(tasks, Tail(childIds),
                 IF taskMapHas(tasks, childId) /\ childId \notin acc.addedIds
                 THEN addTaskWithDescendants(tasks, taskMapGet(tasks, childId), acc)
                 ELSE acc)

\* "First pass: add all root tasks"
RECURSIVE rootsPass(_, _, _)
rootsPass(tasks, rest, acc) ==
    IF rest = <<>> THEN acc
    ELSE rootsPass(tasks, Tail(rest),
             IF Head(rest).parentTaskId = NoParent
             THEN addTaskWithDescendants(tasks, Head(rest), acc) ELSE acc)

\* "Second pass: add any orphaned tasks"
RECURSIVE orphansPass(_, _, _)
orphansPass(tasks, rest, acc) ==
    IF rest = <<>> THEN acc
    ELSE orphansPass(tasks, Tail(rest),
             IF Head(rest).id \notin acc.addedIds
             THEN addTaskWithDescendants(tasks, Head(rest), acc) ELSE acc)

\* getTasksHierarchical: the roots with their descendants, then the rest
getTasksHierarchical(tasks) ==
    LET roots == rootsPass(tasks, tasks, [result |-> <<>>, addedIds |-> {}])
    IN  orphansPass(tasks, tasks, roots).result

\* ------------------------------------------------------------------ export / import
\* exportData: getAllTasks() and the stored counter (exportDate left out)
exportData(st) == [tasks |-> getAllTasks(st.store, FALSE), nextId |-> st.nextId]

\* importData: clear the object store, put every task of data, put data.nextId
RECURSIVE putAll(_, _)
putAll(s, tasks) ==
    IF tasks = <<>> THEN s ELSE putAll(saveTask(s, Head(tasks)), Tail(tasks))

importData(st, data) ==
    [st |-> [st EXCEPT !.store = putAll(<<>>, data.tasks), !.nextId = data.nextId],
     outcome |-> "ok"]

\* ------------------------------------------------------------------ inputs
Min(a, b) == IF a <= b THEN a ELSE b

\* Ids a caller names: every id handed out so far and one never handed out.
TargetIds == 1..Min(nextId, MaxId)

\* Parents a caller names: none, or one of TargetIds.
ParentInputs == {NoParent} \cup TargetIds

\* taskData of createTask: a named task under any parent, created open or
\* already Completed, and one whose name is empty or only whitespace.
CreateInputs ==
    { [name |-> <<"a">>, dueDate |-> NoDate, status |-> s, project |-> Null,
       priority |-> Undefined, notes |-> <<>>, parentTaskId |-> p] :
         s \in {Undefined, "Completed"}, p \in ParentInputs }
    \cup
    { [name |-> n, dueDate |-> NoDate, status |-> Undefined, project |-> Null,
       priority |-> Undefined, notes |-> <<>>, parentTaskId |-> NoParent] :
         n \in {<<>>, <<" ">>} }

\* updates of updateTask: the single-field updates of the status and priority
\* dropdowns, a reparenting, and a reopening that names a priority.
UpdateInputs ==
    { [status |-> s] : s \in {"Not Started", "Completed"} }
    \cup { [priority |-> "High"] }
    \cup { [parentTaskId |-> p] : p \in ParentInputs }
    \cup { [status |-> "In Progress", priority |-> "Low"] }

\* ------------------------------------------------------------------ actions
\* An operation as the caller issues it; Ended fills in how it ended and, for
\* deleteTask, the deletedTaskIds it returned.
Op(name, id, arg) ==
    [op |-> name, id |-> id, arg |-> arg, outcome |-> "ok", ret |-> <<>>]

Ended(r, op) ==
    [op EXCEPT !.outcome = r.outcome,
               !.ret = IF op.op = "delete" /\ r.outcome = "ok" THEN r.ids ELSE <<>>]

\* The operations that record an action when they succeed.
Mutations == {"create", "update", "delete", "restore"}

\* No recorded operation is being undone and redone.
NoRoundTrip == [op |-> Op("init", 0, FALSE), start |-> <<>>, done |-> <<>>, steps |-> 0]

\* Undo and redo calls followed in one round trip.
MaxSteps == 3

\* roundTrip after operation op has returned r: a successful create, update,
\* delete or restore starts a round trip (the records before and after it are
\* kept); a successful undo on an even step and a successful redo on an odd
\* step continue it; anything else ends it.
Follow(r, op) ==
    IF op.op \in Mutations /\ r.outcome = "ok"
    THEN [op |-> Ended(r, op), start |-> store, done |-> r.st.store, steps |-> 0]
    ELSE IF /\ r.outcome = "ok" /\ roundTrip.op.op \in Mutations
            /\ roundTrip.steps < MaxSteps
            /\ op.op = (IF roundTrip.steps % 2 = 0 THEN "undo" ELSE "redo")
    THEN [roundTrip EXCEPT !.steps = @ + 1]
    ELSE NoRoundTrip

\* One operation issued and run to its end: r is what it returns.
Issue(r, op) ==
    /\ nops < MaxOps
    /\ store' = r.st.store
    /\ nextId' = r.st.nextId
    /\ undoStack' = r.st.undoStack
    /\ redoStack' = r.st.redoStack
    /\ last' = Ended(r, op)
    /\ pre' = [store |-> store, nextId |-> nextId, undoStack |-> undoStack,
               redoStack |-> redoStack, last |-> last, before |-> pre.store,
               beforeRedo |-> pre.redoStack]
    /\ nops' = nops + 1
    /\ completedOnce' = completedOnce \cup
           { t \in DOMAIN r.st.store : r.st.store[t].status = "Completed" }
    /\ issued' = IF op.op = "create" /\ r.outcome = "ok"
                 THEN Append(issued, r.task.id) ELSE issued
    /\ importedAt' = IF op.op = "import" THEN Len(issued) ELSE importedAt
    /\ dumps' = IF op.op = "export" THEN dumps \cup {r.data} ELSE dumps
    /\ roundTrip' = Follow(r, op)
    /\ UNCHANGED <<listed, shown, calls>>

CreateTask(taskData) ==
    /\ nextId <= MaxId
    /\ Issue(createTask(Cur, taskData), Op("create", nextId, taskData))

UpdateTask(taskId, updates) ==
    Issue(updateTask(Cur, taskId, updates), Op("update", taskId, updates))

DeleteTask(taskId, deleteChildren) ==
    Issue(deleteTask(Cur, taskId, deleteChildren), Op("delete", taskId, deleteChildren))

RestoreTask(taskId) ==
    Issue(restoreTask(Cur, taskId), Op("restore", taskId, FALSE))

PurgeTask(taskId) ==
    Issue(purgeTask(Cur, taskId), Op("purge", taskId, FALSE))

AddNote(taskId, noteContent) ==
    Issue(addNote(Cur, taskId, noteContent), Op("addNote", taskId, noteContent))

Undo == Issue(undo(Cur), Op("undo", 0, FALSE))

Redo == Issue(redo(Cur), Op("redo", 0, FALSE))

ExportData ==
    Issue([st |-> Cur, outcome |-> "ok", data |-> exportData(Cur)],
          Op("export", 0, FALSE))

ImportData(data) == Issue(importData(Cur, data), Op("import", 0, data))

\* No query has been made.
NoneShown == [by |-> "none", tasks |-> <<>>]

\* The store and the history after construction.
Constructed ==
    /\ store = <<>>
    /\ nextId = 1
    /\ undoStack = <<>>
    /\ redoStack = <<>>
    /\ last = Op("init", 0, FALSE)
    /\ pre = [store |-> <<>>, nextId |-> 1, undoStack |-> <<>>, redoStack |-> <<>>,
              last |-> Op("init", 0, FALSE), before |-> <<>>, beforeRedo |-> <<>>]
    /\ nops = 0
    /\ completedOnce = {}
    /\ issued = <<>>
    /\ importedAt = 0
    /\ dumps = {}
    /\ roundTrip = NoRoundTrip
    /\ calls = <<>>

Init ==
    /\ Constructed
    /\ listed = <<>>
    /\ shown = NoneShown

Next ==
    \/ \E taskData \in CreateInputs : CreateTask(taskData)
    \/ \E taskId \in TargetIds, updates \in UpdateInputs : UpdateTask(taskId, updates)
    \/ \E taskId \in TargetIds, deleteChildren \in BOOLEAN :
           DeleteTask(taskId, deleteChildren)
    \/ \E taskId \in TargetIds : RestoreTask(taskId)
    \/ \E taskId \in TargetIds : PurgeTask(taskId)
    \/ Undo
    \/ Redo

Spec == Init /\ [][Next]_vars

\* Runs of create and update only.
NextCreateUpdate ==
    \/ \E taskData \in CreateInputs : CreateTask(taskData)
    \/ \E taskId \in TargetIds, updates \in UpdateInputs : UpdateTask(taskId, updates)

SpecCreateUpdate == Init /\ [][NextCreateUpdate]_vars

\* The taskData of a plain create under parent p.
Named(p) ==
    [name |-> <<"a">>, dueDate |-> NoDate, status |-> Undefined, project |-> Null,
     priority |-> Undefined, notes |-> <<>>, parentTaskId |-> p]

\* The state after create A; create B under A; create C under B on a new store.
InitFamily ==
    LET st0 == [store |-> <<>>, nextId |-> 1, undoStack |-> <<>>, redoStack |-> <<>>]
        st1 == createTask(st0, Named(NoParent)).st
        st2 == createTask(st1, Named(1)).st
        st3 == createTask(st2, Named(2)).st
    IN  /\ store = st3.store
        /\ nextId = st3.nextId
        /\ undoStack = st3.undoStack
        /\ redoStack = st3.redoStack
        /\ last = Op("create", 3, Named(2))
        /\ pre = [store |-> st2.store, nextId |-> st2.nextId,
                  undoStack |-> st2.undoStack, redoStack |-> st2.redoStack,
                  last |-> Op("create", 2, Named(1)), before |-> st1.store,
                  beforeRedo |-> st1.redoStack]
        /\ nops = 0
        /\ completedOnce = {}
        /\ issued = <<1, 2, 3>>
        /\ importedAt = 0
        /\ dumps = {}
        /\ roundTrip = [op |-> Op("create", 3, Named(2)), start |-> st2.store,
                        done |-> st3.store, steps |-> 0]
        /\ listed = <<>>
        /\ shown = NoneShown
        /\ calls = <<>>

\* Runs of every operation but update on that three-tier family.
NextFamily ==
    \/ \E taskData \in CreateInputs : CreateTask(taskData)
    \/ \E taskId \in TargetIds, deleteChildren \in BOOLEAN :
           DeleteTask(taskId, deleteChildren)
    \/ \E taskId \in TargetIds : RestoreTask(taskId)
    \/ \E taskId \in TargetIds : PurgeTask(taskId)
    \/ Undo
    \/ Redo

SpecFamily == InitFamily /\ [][NextFamily]_vars

\* Runs in which the caller also takes backups and loads them back.
NextImport ==
    \/ Next
    \/ ExportData
    \/ \E data \in dumps : ImportData(data)

SpecImport == Init /\ [][NextImport]_vars

\* The state after create A; update(A, {priority: 'High'}) on a new store.
InitEdited ==
    LET st0 == [store |-> <<>>, nextId |-> 1, undoStack |-> <<>>, redoStack |-> <<>>]
        st1 == createTask(st0, Named(NoParent)).st
        st2 == updateTask(st1, 1, [priority |-> "High"]).st
    IN  /\ store = st2.store
        /\ nextId = st2.nextId
        /\ undoStack = st2.undoStack
        /\ redoStack = st2.redoStack
        /\ last = Op("update", 1, [priority |-> "High"])
        /\ pre = [store |-> st1.store, nextId |-> st1.nextId,
                  undoStack |-> st1.undoStack, redoStack |-> st1.redoStack,
                  last |-> Op("create", 1, Named(NoParent)), before |-> <<>>,
                  beforeRedo |-> <<>>]
        /\ nops = 0
        /\ completedOnce = {}
        /\ issued = <<1>>
        /\ importedAt = 0
        /\ dumps = {}
        /\ roundTrip = [op |-> Op("update", 1, [priority |-> "High"]),
                        start |-> st1.store, done |-> st2.store, steps |-> 0]
        /\ listed = <<>>
        /\ shown = NoneShown
        /\ calls = <<>>

\* Runs of every operation from that state.
SpecEdited == InitEdited /\ [][Next]_vars

\* Runs in which notes are added as well.
NextNotes ==
    \/ Next
    \/ \E taskId \in TargetIds : AddNote(taskId, "n")

SpecNotes == Init /\ [][NextNotes]_vars

\* ------------------------------------------------------------------ overlapping creates
\* How many createTask calls are in progress at once.
NumCallers == 2

Callers == 1..NumCallers

\* The local variable of a call before it is assigned.
Unset == NewTask(0, Named(NoParent))

\* A createTask call that has been made and has not run yet.
Called(taskData) ==
    [at |-> "called", taskData |-> taskData, task |-> Unset, parent |-> Unset]

\* The state after create A on a new store, with NumCallers createTask
\* calls made at once, each for a root task or a child of A.
InitOverlap ==
    LET st0 == [store |-> <<>>, nextId |-> 1, undoStack |-> <<>>, redoStack |-> <<>>]
        st1 == createTask(st0, Named(NoParent)).st
    IN  /\ store = st1.store
        /\ nextId = st1.nextId
        /\ undoStack = st1.undoStack
        /\ redoStack = st1.redoStack
        /\ last = Op("create", 1, Named(NoParent))
        /\ pre = [store |-> <<>>, nextId |-> 1, undoStack |-> <<>>, redoStack |-> <<>>,
                  last |-> Op("init", 0, FALSE), before |-> <<>>, beforeRedo |-> <<>>]
        /\ nops = 0
        /\ completedOnce = {}
        /\ issued = <<1>>
        /\ importedAt = 0
        /\ dumps = {}
        /\ roundTrip = [op |-> Op("create", 1, Named(NoParent)), start |-> <<>>,
                        done |-> st1.store, steps |-> 0]
        /\ listed = <<>>
        /\ shown = NoneShown
        /\ calls \in [Callers -> { Called(Named(p)) : p \in {NoParent, 1} }]

\* createTask up to "await this.getNextId()": the name test and, for a child,
\* the reads of the parent and of its depth.  The calls of this
\* specification name a stored parent of depth 0, so none throws.
Validate(c) ==
    /\ calls[c].at = "called"
    /\ LET p == calls[c].taskData.parentTaskId
       IN  /\ trim(calls[c].taskData.name) # <<>>
           /\ p # NoParent => Has(store, p) /\ getTaskDepth(store, store[p]) < 2
    /\ calls' = [calls EXCEPT ![c].at = "validated"]
    /\ UNCHANGED <<store, nextId, undoStack, redoStack, last, pre, nops,
                   completedOnce, issued, importedAt, dumps, roundTrip, listed, shown>>

\* getNextId: one readwrite transaction on 'metadata' gets the counter and
\* puts it back incremented; IndexedDB runs readwrite transactions on one
\* store one after the other, so this is one step.  Then the task object.
TakeId(c) ==
    /\ calls[c].at = "validated"
    /\ LET next == getNextId(Cur)
       IN  /\ nextId' = next.st.nextId
           /\ calls' = [calls EXCEPT ![c].at = "numbered",
                                     ![c].task = NewTask(next.id, calls[c].taskData)]
    /\ UNCHANGED <<store, undoStack, redoStack, last, pre, nops,
                   completedOnce, issued, importedAt, dumps, roundTrip, listed, shown>>

\* "await this.saveTask(task)"
SaveNew(c) ==
    /\ calls[c].at = "numbered"
    /\ store' = saveTask(store, calls[c].task)
    /\ calls' = [calls EXCEPT ![c].at = "saved"]
    /\ UNCHANGED <<nextId, undoStack, redoStack, last, pre, nops,
                   completedOnce, issued, importedAt, dumps, roundTrip, listed, shown>>

\* "const parent = await this.getTaskById(task.parentTaskId)": the call keeps
\* the record as it is stored now.
ReadParent(c) ==
    /\ calls[c].at = "saved"
    /\ calls[c].task.parentTaskId # NoParent
    /\ Has(store, calls[c].task.parentTaskId)
    /\ calls' = [calls EXCEPT ![c].at = "read",
                              ![c].parent = store[calls[c].task.parentTaskId]]
    /\ UNCHANGED <<store, nextId, undoStack, redoStack, last, pre, nops,
                   completedOnce, issued, importedAt, dumps, roundTrip, listed, shown>>

\* The record put by a call that reads the parent again when it saves it.
pushOntoStored(s, parent, taskId) ==
    saveTask(s, [s[parent.id] EXCEPT !.childTaskIds = Append(@, taskId)])

\* "parent.childTaskIds.push(task.id); await this.saveTask(parent)": the
\* record put is the call's own copy of the parent with the id appended.
pushOntoCopy(s, parent, taskId) ==
    IF taskId \in Range(parent.childTaskIds) THEN s
    ELSE saveTask(s, [parent EXCEPT !.childTaskIds = Append(@, taskId)])

SaveParent(c) ==
    /\ calls[c].at = "read"
    /\ store' = pushOntoCopy(store, calls[c].parent, calls[c].task.id)
    /\ calls' = [calls EXCEPT ![c].at = "attached"]
    /\ UNCHANGED <<nextId, undoStack, redoStack, last, pre, nops,
                   completedOnce, issued, importedAt, dumps, roundTrip, listed, shown>>

\* recordAction and "return task"
Return(c) ==
    /\ \/ calls[c].at = "attached"
       \/ calls[c].at = "saved" /\ calls[c].task.parentTaskId = NoParent
    /\ LET st == recordAction(Cur, [type |-> "create", taskId |-> calls[c].task.id])
       IN  undoStack' = st.undoStack /\ redoStack' = st.redoStack
    /\ issued' = Append(issued, calls[c].task.id)
    /\ calls' = [calls EXCEPT ![c].at = "returned"]
    /\ UNCHANGED <<store, nextId, last, pre, nops, completedOnce, importedAt,
                   dumps, roundTrip, listed, shown>>

NextOverlap ==
    \E c \in Callers :
        \/ Validate(c)
        \/ TakeId(c)
        \/ SaveNew(c)
        \/ ReadParent(c)
        \/ SaveParent(c)
        \/ Return(c)

SpecOverlap == InitOverlap /\ [][NextOverlap]_vars

\* The largest task list handed to a query.
MaxList == 3

\* The lists of n distinct ids out of 1..MaxList, in every order.
IdLists(n) ==
    { ids \in [1..n -> 1..MaxList] : \A i, j \in 1..n : ids[i] = ids[j] => i = j }

\* A task as createTask stores it, with the given priority and due date.
Planned(taskId, priority, dueDate) ==
    [NewTask(taskId, Named(NoParent)) EXCEPT !.priority = priority, !.dueDate = dueDate]

\* Priority and due date of a listed task: every priority, each with and
\* without a due date, and two different dates for Critical and High.
Kinds ==
    ({Null} \X {NoDate, 1})
        \cup ({"Critical", "High"} \X {NoDate, 1, 2})
        \cup ({"Medium", "Low"} \X {NoDate, 2})

\* The list for sortByPriority: up to MaxList tasks with distinct ids, any
\* priority and due date, in any order.
InitSort ==
    /\ Constructed
    /\ \E n \in 0..MaxList :
         \E ids \in IdLists(n), kind \in [1..n -> Kinds] :
            listed = [i \in 1..n |-> Planned(ids[i], kind[i][1], kind[i][2])]
    /\ shown = NoneShown

\* The renderer sorts the list it was handed.
SortByPriority ==
    /\ shown' = [by |-> "sortByPriority", tasks |-> sortByPriority(listed)]
    /\ UNCHANGED <<store, nextId, undoStack, redoStack, last, pre, nops,
                   completedOnce, issued, importedAt, dumps, roundTrip, listed, calls>>

NextSort == SortByPriority

\* The parent links of a store of MaxList tasks that keeps the hierarchy
\* rules: no task above itself, at most three tiers.
Forests ==
    { parent \in [1..MaxList -> 0..MaxList] :
        \A t \in 1..MaxList :
            /\ parent[t] # t
            /\ parent[t] # NoParent =>
                  /\ parent[parent[t]] # t
                  /\ parent[parent[t]] # NoParent => parent[parent[parent[t]]] = NoParent }

\* Task t of such a store: its priority, its parent, and its children in id
\* order.
Linked(parent, priority, t) ==
    [Planned(t, priority[t], NoDate) EXCEPT
        !.parentTaskId = parent[t],
        !.childTaskIds = Ascending({ c \in 1..MaxList : parent[c] = t })]

\* The list for getTasksHierarchical, as render makes it: the tasks of such a
\* store that are not deleted, in id order, sorted by sortByPriority.
InitDisplay ==
    /\ Constructed
    /\ \E parent \in Forests, live \in SUBSET (1..MaxList),
          priority \in [1..MaxList -> {"High", "Medium"}] :
            LET ids == Ascending(live)
            IN  listed = sortByPriority([i \in 1..Len(ids) |->
                                           Linked(parent, priority, ids[i])])
    /\ shown = NoneShown

\* The renderer puts the list it was handed in display order.
GetTasksHierarchical ==
    /\ shown' = [by |-> "getTasksHierarchical", tasks |-> getTasksHierarchical(listed)]
    /\ UNCHANGED <<store, nextId, undoStack, redoStack, last, pre, nops,
                   completedOnce, issued, importedAt, dumps, roundTrip, listed, calls>>

NextDisplay == GetTasksHierarchical

SpecDisplay == InitDisplay /\ [][NextDisplay]_vars

SpecSort == InitSort /\ [][NextSort]_vars

\* ------------------------------------------------------------------ properties
Returned(name) == last.op = name /\ last.outcome = "ok"

\* The walk up parentTaskId from task t comes back to t.
RECURSIVE ReturnsTo(_, _, _, _)
ReturnsTo(s, t, current, fuel) ==
    /\ fuel > 0
    /\ Has(s, current)
    /\ s[current].parentTaskId # NoParent
    /\ \/ s[current].parentTaskId = t
       \/ ReturnsTo(s, t, s[current].parentTaskId, fuel - 1)

OwnAncestor(s, t) == ReturnsTo(s, t, t, Cardinality(DOMAIN s))

\* The ids reachable from t through childTaskIds, t excluded unless on a cycle.
RECURSIVE Below(_, _, _)
Below(s, ids, seen) ==
    LET new == { c \in ids : Has(s, c) } \ seen
    IN  IF new = {} THEN seen
        ELSE Below(s, UNION { Range(s[c].childTaskIds) : c \in new }, seen \cup new)

Descendants(s, t) == Below(s, Range(s[t].childTaskIds), {})

\* C1: after any sequence of create and update operations every task is at
\* most 2 parentTaskId links away from a root.
C1_DepthAtMostTwo ==
    \A t \in DOMAIN store :
        LET d == getTaskDepth(store, store[t]) IN d # Diverges /\ d <= 2

\* C2: after any sequence of create and update operations no task is its own
\* ancestor: the walk up parentTaskId from a task never comes back to it.
C2_NoTaskIsItsOwnAncestor == \A t \in DOMAIN store : ~OwnAncestor(store, t)

\* C3: among the stored (non-purged) tasks, c.parentTaskId = p.id exactly
\* when c.id is listed in p.childTaskIds.
C3_ParentAndChildIdsAreInverse ==
    \A c \in DOMAIN store, p \in DOMAIN store :
        (store[c].parentTaskId = p) <=> (c \in Range(store[p].childTaskIds))

\* C4: when update returns with the task Completed, every descendant of the
\* task is Completed and has no priority.
C4_CompletionReachesEveryDescendant ==
    (Returned("update") /\ store[last.id].status = "Completed")
        => \A d \in Descendants(store, last.id) :
               store[d].status = "Completed" /\ store[d].priority = Null

\* C5: when update returns with the task Completed and the task's parent is
\* stored, the parent is Completed if every child it lists is Completed, and
\* keeps the status it had if some child it lists is not.
C5_ParentFollowsItsChildren ==
    (Returned("update") /\ store[last.id].status = "Completed"
        /\ store[last.id].parentTaskId # NoParent
        /\ Has(store, store[last.id].parentTaskId))
    => LET p == store[last.id].parentTaskId
           allCompleted == \A c \in Range(store[p].childTaskIds) :
                               Has(store, c) /\ store[c].status = "Completed"
       IN  IF allCompleted THEN store[p].status = "Completed"
           ELSE store[p].status = pre.store[p].status

\* What C6 compares: the non-deleted ids and, per task, parent, children, status.
Relations(s) ==
    [live |-> { t \in DOMAIN s : ~s[t].deleted },
     links |-> [t \in DOMAIN s |->
                  [parentTaskId |-> s[t].parentTaskId,
                   childTaskIds |-> Range(s[t].childTaskIds),
                   status |-> s[t].status]]]

\* A cascading delete returned and the undo issued right after it returned.
DeleteThenUndo ==
    /\ Returned("undo")
    /\ pre.last.op = "delete" /\ pre.last.outcome = "ok" /\ pre.last.arg

\* C6: delete(id, cascade=true) immediately followed by undo gives back the
\* non-deleted ids, parent links, child sets and statuses from before the delete.
C6_CascadeDeleteUndoRoundTrip ==
    DeleteThenUndo => Relations(store) = Relations(pre.before)

\* C7: a successful undo moves exactly the top of the undo list onto the redo
\* list and a successful redo moves exactly the top of the redo list onto the
\* undo list; nothing else in either list changes.
C7_UndoRedoRecordNothing ==
    /\ Returned("undo") =>
          /\ undoStack = SubSeq(pre.undoStack, 1, Len(pre.undoStack) - 1)
          /\ redoStack = Append(pre.redoStack, pre.undoStack[Len(pre.undoStack)])
    /\ Returned("redo") =>
          /\ redoStack = SubSeq(pre.redoStack, 1, Len(pre.redoStack) - 1)
          /\ undoStack = Append(pre.undoStack, pre.redoStack[Len(pre.redoStack)])

\* C8: the undo list never holds more than maxHistorySize actions.
C8_UndoListBounded == Len(undoStack) <= maxHistorySize

\* C9: an update that fails the validation of its new parent leaves the
\* records, the counter and both lists as they were when it was issued.
C9_FailedReparentChangesNothing ==
    (last.op = "update" /\ last.outcome \in {"ParentNotFound", "Circular", "DepthExceeded"})
        => /\ store = pre.store
           /\ nextId = pre.nextId
           /\ undoStack = pre.undoStack
           /\ redoStack = pre.redoStack

\* C10: a task whose status is not Completed has a concrete priority.
C10_OpenTaskHasPriority ==
    \A t \in DOMAIN store :
        store[t].status # "Completed" => store[t].priority # Null

\* C10 as amended: a task with absent priority is Completed or was Completed
\* before (reopening leaves the priority absent until the caller names one);
\* a task that was never Completed has a concrete priority.
C10_AbsentPriorityOnlyAfterCompletion ==
    \A t \in DOMAIN store : store[t].priority = Null => t \in completedOnce

\* C10's case: a reopened task, not Completed, still without a priority, and
\* next to it a task that was never Completed.
C10_ReopenedTaskReached ==
    \E t \in DOMAIN store, u \in DOMAIN store :
        /\ store[t].status # "Completed" /\ store[t].priority = Null
        /\ last.op = "update" /\ last.id = t /\ pre.store[t].status = "Completed"
        /\ u \notin completedOnce

\* The tasks that the operation issued last turned Completed.
BecameCompleted ==
    { t \in DOMAIN store :
        /\ store[t].status = "Completed"
        /\ Has(pre.store, t) /\ pre.store[t].status # "Completed" }

\* C11: when update returns, every task it turned Completed (the task itself,
\* a descendant reached by the cascade, or the auto-completed parent) has no
\* priority.
C11_CompletedByUpdateLosesPriority ==
    Returned("update") => \A t \in BecameCompleted : store[t].priority = Null

\* C12: the ids returned by successful creates are strictly increasing over
\* the whole run, so no id is returned twice.
C12_IssuedIdsStrictlyIncreasing ==
    \A i \in 1..Len(issued), j \in 1..Len(issued) : i < j => issued[i] < issued[j]

\* C12 as amended: the ids returned by successful creates since the last
\* import (since construction when there was none) are strictly increasing,
\* whatever was soft-deleted or purged in between.
C12_IssuedIdsStrictlyIncreasingSinceImport ==
    \A i \in (importedAt + 1)..Len(issued), j \in (importedAt + 1)..Len(issued) :
        i < j => issued[i] < issued[j]

\* C12's case: create returns a second id after an earlier one was purged.
C12_CreateAfterPurgeReached ==
    /\ Returned("create")
    /\ Len(issued) >= importedAt + 2
    /\ \E i \in (importedAt + 1)..Len(issued) : ~Has(store, issued[i])

\* C13: after any operation, delete, restore, purge, undo and redo included,
\* every non-deleted task is at most 2 parentTaskId links away from a root.
C13_LiveDepthAtMostTwo ==
    \A t \in DOMAIN store :
        ~store[t].deleted =>
            LET d == getTaskDepth(store, store[t]) IN d # Diverges /\ d <= 2

\* The state a caller can observe is what it was when the last operation
\* was issued: records, counter and both lists.
NothingChanged ==
    /\ store = pre.store
    /\ nextId = pre.nextId
    /\ undoStack = pre.undoStack
    /\ redoStack = pre.redoStack

\* The errors createTask throws.
CreateErrors == {"NameRequired", "ParentNotFound", "DepthExceeded"}

\* The taskData of the create issued last names no usable task: its name is
\* empty or blank, its parent is not stored, or its parent is at depth 2.
CreateMustFail ==
    LET taskData == last.arg
        p == taskData.parentTaskId
    IN  \/ trim(taskData.name) = <<>>
        \/ p # NoParent /\ ~Has(pre.store, p)
        \/ p # NoParent /\ Has(pre.store, p)
              /\ getTaskDepth(pre.store, pre.store[p]) >= 2

\* C14: a create with a blank name, a parent that is not stored or a parent
\* at depth 2 ends with an error, and a create that ends with an error leaves
\* the records, the counter, every childTaskIds and both lists as they were.
C14_FailedCreateChangesNothing ==
    last.op = "create" =>
        /\ CreateMustFail => last.outcome \in CreateErrors
        /\ last.outcome \in CreateErrors => NothingChanged

\* C14's case: A root, B under A, C under B, and create under C has failed.
C14_CreateBelowDepthTwoFailed ==
    /\ last.op = "create" /\ last.outcome = "DepthExceeded"
    /\ \E a \in DOMAIN store, b \in DOMAIN store :
          /\ store[a].parentTaskId = NoParent
          /\ store[b].parentTaskId = a
          /\ Has(store, last.arg.parentTaskId)
          /\ store[last.arg.parentTaskId].parentTaskId = b
          /\ Cardinality({a, b, last.arg.parentTaskId}) = 3

\* C15: an update of an id that is not stored, or that is stored and marked
\* deleted, ends with the not-found error and leaves the records, the counter
\* and both lists as they were.
C15_UpdateOfMissingOrDeletedFails ==
    (last.op = "update" /\ (~Has(pre.store, last.id) \/ pre.store[last.id].deleted))
        => last.outcome = "NotFound" /\ NothingChanged

\* A cascading delete returned.
CascadeDeleteReturned == Returned("delete") /\ last.arg

\* The non-deleted tasks of s whose parentTaskId chain leads to task t.
LiveSubtree(s, t) ==
    { d \in DOMAIN s : ~s[d].deleted /\ ReturnsTo(s, t, d, Cardinality(DOMAIN s)) }

\* The task deleted last and its subtree when the delete was issued.
DeletedSubtree == {last.id} \cup LiveSubtree(pre.store, last.id)

\* C16: when delete(id, cascade=true) returns, id and every task below it are
\* marked deleted, the returned ids are exactly those tasks, each once, and
\* the delete action on top of the undo list carries the returned ids.
C16_CascadeDeleteReturnsSubtree ==
    CascadeDeleteReturned =>
        /\ \A t \in DeletedSubtree : Has(store, t) /\ store[t].deleted
        /\ Range(last.ret) = DeletedSubtree
        /\ Len(last.ret) = Cardinality(DeletedSubtree)
        /\ undoStack # <<>>
        /\ undoStack[Len(undoStack)] =
               [type |-> "delete", taskId |-> last.id, deletedTaskIds |-> last.ret]

\* The non-deleted tasks of s whose parentTaskId is t.
LiveChildren(s, t) == { c \in DOMAIN s : ~s[c].deleted /\ s[c].parentTaskId = t }

\* delete(A, cascade=false) returned for a task A that had children.
KeepChildrenDeleteReturned ==
    /\ Returned("delete") /\ ~last.arg
    /\ LiveChildren(pre.store, last.id) # {}

\* C17: when delete(A, cascade=false) returns for a task A with children,
\* every former child is a non-deleted root, A is marked deleted with a
\* deletedAt stamp, and the parent of A no longer lists A.
C17_KeepChildrenDeletePromotesChildren ==
    KeepChildrenDeleteReturned =>
        /\ \A c \in LiveChildren(pre.store, last.id) :
              Has(store, c) /\ store[c].parentTaskId = NoParent /\ ~store[c].deleted
        /\ store[last.id].deleted /\ store[last.id].deletedAt = Stamp
        /\ LET p == pre.store[last.id].parentTaskId
           IN  (p # NoParent /\ Has(store, p)) =>
                   last.id \notin Range(store[p].childTaskIds)

\* How many times x occurs in seq.
Occurrences(seq, x) == Cardinality({ i \in 1..Len(seq) : seq[i] = x })

\* C18: a restore of an id that is not stored or not marked deleted ends with
\* an error and changes nothing; any other restore returns with the task not
\* deleted, its deletedAt cleared and, when its parent is stored and not
\* deleted, listed exactly once in the parent's childTaskIds.
C18_RestoreReattachesOnce ==
    last.op = "restore" =>
        IF ~Has(pre.store, last.id) \/ ~pre.store[last.id].deleted
        THEN last.outcome \in {"NotFound", "NotDeleted"} /\ NothingChanged
        ELSE /\ last.outcome = "ok"
             /\ ~store[last.id].deleted /\ store[last.id].deletedAt = Null
             /\ LET p == store[last.id].parentTaskId
                IN  (p # NoParent /\ Has(store, p) /\ ~store[p].deleted) =>
                        Occurrences(store[p].childTaskIds, last.id) = 1

\* C18's case: a deleted child was restored under its non-deleted parent,
\* which no longer listed it.
C18_ChildRestoredUnderParent ==
    /\ Returned("restore")
    /\ LET p == store[last.id].parentTaskId
       IN  /\ p # NoParent /\ p # last.id /\ Has(store, p) /\ ~store[p].deleted
           /\ last.id \notin Range(pre.store[p].childTaskIds)

\* The tasks of s marked deleted whose parentTaskId chain leads to task t.
TrashBelow(s, t) ==
    { d \in DOMAIN s : s[d].deleted /\ ReturnsTo(s, t, d, Cardinality(DOMAIN s)) }

\* C19: a purge of a stored task that is not marked deleted ends with an
\* error; a purge of a task marked deleted erases it together with every
\* deleted task whose parentTaskId chain led to it; and whatever the purge,
\* every task that was not marked deleted is still stored.
C19_PurgeErasesDeletedSubtree ==
    last.op = "purge" =>
        /\ (Has(pre.store, last.id) /\ ~pre.store[last.id].deleted)
               => last.outcome = "NotInTrash"
        /\ (Has(pre.store, last.id) /\ pre.store[last.id].deleted)
               => /\ last.outcome = "ok"
                  /\ ~Has(store, last.id)
                  /\ \A d \in TrashBelow(pre.store, last.id) : ~Has(store, d)
        /\ \A t \in DOMAIN pre.store : ~pre.store[t].deleted => Has(store, t)

\* The fields of a record that C20 says a soft-deleted task keeps.
Kept(task) ==
    [name |-> task.name, status |-> task.status, priority |-> task.priority,
     notes |-> task.notes, parentTaskId |-> task.parentTaskId]

\* C20: getAllTasks() returns no task marked deleted, getDeletedTasks()
\* returns exactly the stored tasks marked deleted, each once, and a task that
\* was marked deleted when the last operation was issued is either erased or
\* stored with the name, status, priority, notes and parentTaskId it had.
C20_TrashIsHiddenAndKept ==
    /\ \A task \in Range(getAllTasks(store, FALSE)) : ~task.deleted
    /\ Range(getDeletedTasks(store)) = { store[t] : t \in { d \in DOMAIN store : store[d].deleted } }
    /\ Len(getDeletedTasks(store)) = Cardinality({ d \in DOMAIN store : store[d].deleted })
    /\ \A t \in DOMAIN pre.store :
          (pre.store[t].deleted /\ Has(store, t)) => Kept(store[t]) = Kept(pre.store[t])

\* C21: a create, update, delete or restore that succeeds leaves the redo
\* list empty, and a redo issued right after it ends with 'Nothing to redo'
\* and changes nothing.
C21_NewActionClearsRedo ==
    /\ (last.op \in Mutations /\ last.outcome = "ok") => redoStack = <<>>
    /\ (last.op = "redo" /\ pre.last.op \in Mutations /\ pre.last.outcome = "ok")
          => last.outcome = "NothingToRedo" /\ NothingChanged

\* C21's case: the redo list held an action, a mutation succeeded, and the
\* redo issued next found nothing to redo.
C21_RedoAfterMutationFailed ==
    /\ last.op = "redo" /\ last.outcome = "NothingToRedo"
    /\ pre.last.op \in Mutations /\ pre.last.outcome = "ok"
    /\ pre.beforeRedo # <<>>

\* C22: an undo issued on an empty undo list ends with 'Nothing to undo', a
\* redo issued on an empty redo list ends with 'Nothing to redo', and either
\* leaves the records, the counter and both lists as they were.
C22_EmptyHistoryFailsCleanly ==
    /\ (last.op = "undo" /\ pre.undoStack = <<>>)
          => last.outcome = "NothingToUndo" /\ NothingChanged
    /\ (last.op = "redo" /\ pre.redoStack = <<>>)
          => last.outcome = "NothingToRedo" /\ NothingChanged

\* C22's case: the undo list is used up while tasks are stored and the redo
\* list holds an action, and one more undo has failed.
C22_UndoOnEmptyListFailed ==
    /\ last.op = "undo" /\ last.outcome = "NothingToUndo"
    /\ DOMAIN store # {} /\ redoStack # <<>>

\* The round trip followed is that of an update that moved a task to another
\* parent, and n undo and redo calls have followed the update.
ReparentRoundTrip(n) ==
    /\ roundTrip.steps = n
    /\ roundTrip.op.op = "update"
    /\ ChangesParent(roundTrip.start[roundTrip.op.id], roundTrip.op.arg)

\* Task id is listed by parent p, when p names a stored task.
ListedBy(s, p, id) == (p # NoParent /\ Has(s, p)) => id \in Range(s[p].childTaskIds)

\* Task id is not listed by parent p, when p names a stored task.
NotListedBy(s, p, id) == (p # NoParent /\ Has(s, p)) => id \notin Range(s[p].childTaskIds)

\* C23: when the undo issued right after an update that moved a task from
\* parent P to parent Q returns, the task has the recorded fields it had before
\* the update, P lists it and Q does not; when the redo issued right after
\* that undo returns, the task has the fields it had after the update, Q
\* lists it and P does not.
C23_ReparentUndoRedoRoundTrip ==
    LET id == roundTrip.op.id
        P == roundTrip.start[id].parentTaskId
        Q == roundTrip.op.arg.parentTaskId
    IN  /\ ReparentRoundTrip(1) =>
              /\ StateOf(store[id]) = StateOf(roundTrip.start[id])
              /\ ListedBy(store, P, id)
              /\ NotListedBy(store, Q, id)
        /\ ReparentRoundTrip(2) =>
              /\ StateOf(store[id]) = StateOf(roundTrip.done[id])
              /\ ListedBy(store, Q, id)
              /\ NotListedBy(store, P, id)

\* The round trip followed is that of a create under a parent, and n undo and
\* redo calls have followed the create.
CreateRoundTrip(n) ==
    /\ roundTrip.steps = n
    /\ roundTrip.op.op = "create"
    /\ roundTrip.op.arg.parentTaskId # NoParent

\* C24: when the undo issued right after a create under parent P returns, the
\* created task is marked deleted and P does not list it; when the redo
\* issued right after that undo returns, the task is not deleted, P lists it
\* and the records are those the create left.
C24_CreateUndoRedoRoundTrip ==
    LET id == roundTrip.op.id
        P == roundTrip.op.arg.parentTaskId
    IN  /\ CreateRoundTrip(1) =>
              /\ store[id].deleted
              /\ Has(store, P) /\ id \notin Range(store[P].childTaskIds)
        /\ CreateRoundTrip(2) =>
              /\ ~store[id].deleted
              /\ Has(store, P) /\ id \in Range(store[P].childTaskIds)
              /\ store = roundTrip.done

\* What C25 compares: the non-deleted ids and, per task, parent and children.
Links(s) ==
    [live |-> { t \in DOMAIN s : ~s[t].deleted },
     links |-> [t \in DOMAIN s |->
                  [parentTaskId |-> s[t].parentTaskId,
                   childTaskIds |-> Range(s[t].childTaskIds)]]]

\* The round trip followed is that of a cascading delete, and n undo and redo
\* calls have followed the delete.
CascadeRoundTrip(n) ==
    /\ roundTrip.steps = n
    /\ roundTrip.op.op = "delete" /\ roundTrip.op.arg

\* C25: after delete(id, cascade=true), undo, redo every task of the recorded
\* id set is marked deleted, and after the undo that follows the non-deleted
\* ids, the parent links and the child sets are those from before the delete.
C25_CascadeDeleteUndoRedoUndo ==
    /\ CascadeRoundTrip(2) =>
          \A t \in Range(roundTrip.op.ret) : Has(store, t) /\ store[t].deleted
    /\ CascadeRoundTrip(3) => Links(store) = Links(roundTrip.start)

\* The update issued last completed task c, whose parent p was auto-completed
\* by it, and p has a parent.
AutoCompletedAbove(c, p) ==
    /\ Returned("update") /\ last.id = c
    /\ "status" \in DOMAIN last.arg /\ last.arg.status = "Completed"
    /\ Has(store, c) /\ store[c].status = "Completed"
    /\ p = store[c].parentTaskId /\ p # c /\ Has(store, p)
    /\ p \in BecameCompleted
    /\ store[p].parentTaskId # NoParent /\ Has(store, store[p].parentTaskId)

\* C26: when the update that completes a task auto-completes its parent and
\* thereby every child of the grandparent is Completed, the grandparent is
\* Completed when the update returns.
C26_AutoCompletionReachesGrandparent ==
    \A c \in DOMAIN store, p \in DOMAIN store :
        LET g == store[p].parentTaskId
        IN  (AutoCompletedAbove(c, p) /\ areAllChildrenCompleted(store, store[g]))
                => store[g].status = "Completed"

\* A filter on no field, and one field test.
NoFilters ==
    [id |-> [on |-> FALSE, value |-> {}, negate |-> FALSE],
     project |-> [on |-> FALSE, value |-> "", negate |-> FALSE],
     priority |-> [on |-> FALSE, value |-> "", negate |-> FALSE],
     status |-> [on |-> FALSE, value |-> "", negate |-> FALSE]]

Test(v, negate) == [on |-> TRUE, value |-> v, negate |-> negate]

\* The filters the property is checked for.
FilterInputs ==
    { NoFilters,
      [NoFilters EXCEPT !.id = Test({1}, FALSE)],
      [NoFilters EXCEPT !.id = Test({3}, FALSE)],
      [NoFilters EXCEPT !.id = Test({1, 2}, TRUE)],
      [NoFilters EXCEPT !.status = Test("completed", FALSE)],
      [NoFilters EXCEPT !.status = Test("Not Started", TRUE)],
      [NoFilters EXCEPT !.priority = Test("Medium", FALSE)],
      [NoFilters EXCEPT !.priority = Test("MEDIUM", TRUE)],
      [NoFilters EXCEPT !.project = Test("X", FALSE)],
      [NoFilters EXCEPT !.project = Test("X", TRUE), !.id = Test({2}, FALSE)],
      [NoFilters EXCEPT !.status = Test("Completed", FALSE), !.priority = Test("Medium", TRUE)],
      [NoFilters EXCEPT !.status = Test("Completed", TRUE), !.id = Test({3}, FALSE)] }

\* The test a filter states on one field: the field equals the value, letters
\* compared without case, and an absent project or priority equals no value.
Equals(task, filters, field) ==
    IF field = "id" THEN task.id \in filters.id.value
    ELSE /\ task[field] # Null
         /\ toLowerCase(task[field]) = toLowerCase(filters[field].value)

\* The non-deleted tasks that satisfy every test of the filter, by id.
Matching(s, filters) ==
    { t \in DOMAIN s :
        /\ ~s[t].deleted
        /\ \A field \in {"id", "project", "priority", "status"} :
              filters[field].on =>
                  (Equals(s[t], filters, field) # filters[field].negate) }

\* The non-deleted tasks reached from ids in n steps or fewer, a step going
\* from a non-deleted task t to the ids next[t].
Reached(s, ids, next, n) ==
    LET RECURSIVE reachedLoop(_, _)
        reachedLoop(found, k) ==
            IF k = 0 THEN found
            ELSE reachedLoop(found \cup { u \in DOMAIN s :
                                            /\ ~s[u].deleted
                                            /\ \E t \in found : u \in next[t] },
                             k - 1)
    IN  reachedLoop(ids, n)

\* The family closure of a set of non-deleted tasks: the set, the ancestors
\* along parentTaskId and the descendants along childTaskIds.
FamilyClosure(s, ids) ==
    LET parentOf == [t \in DOMAIN s |-> {s[t].parentTaskId}]
        childrenOf == [t \in DOMAIN s |-> Range(s[t].childTaskIds)]
    IN  Reached(s, ids, parentOf, Cardinality(DOMAIN s))
            \cup Reached(s, ids, childrenOf, Cardinality(DOMAIN s))

\* C27: for every filter, filterTasks returns, and what it returns is the
\* family closure of the tasks matching the filter: stored non-deleted records,
\* each once, and no other task.
C27_FilterReturnsFamilyClosure ==
    \A filters \in FilterInputs :
        LET r == filterTasks(store, filters)
        IN  /\ r.outcome = "ok"
            /\ \A i \in 1..Len(r.tasks) :
                  Has(store, r.tasks[i].id) /\ r.tasks[i] = store[r.tasks[i].id]
            /\ { r.tasks[i].id : i \in 1..Len(r.tasks) }
                  = FamilyClosure(store, Matching(store, filters))
            /\ \A i \in 1..Len(r.tasks), j \in 1..Len(r.tasks) :
                  r.tasks[i].id = r.tasks[j].id => i = j

\* C28: in sortByPriority of the non-deleted tasks of the store, no Completed
\* task stands before a task that is not Completed.
C28_CompletedSortLast ==
    LET sorted == sortByPriority(getAllTasks(store, FALSE))
    IN  \A i \in 1..Len(sorted), j \in 1..Len(sorted) :
            (i < j /\ sorted[i].status = "Completed") => sorted[j].status = "Completed"

\* Where a concrete priority stands in the order Critical, High, Medium, Low.
Rank(priority) ==
    CHOOSE k \in 1..4 : <<"Critical", "High", "Medium", "Low">>[k] = priority

\* Task a may stand before task b in the order C29 states.
MayPrecede(a, b) ==
    IF a.priority = Null \/ b.priority = Null
    THEN /\ b.priority = Null
         /\ a.priority = Null => a.id > b.id
    ELSE /\ Rank(a.priority) <= Rank(b.priority)
         /\ Rank(a.priority) = Rank(b.priority) =>
               /\ a.dueDate = NoDate => b.dueDate = NoDate
               /\ (a.dueDate # NoDate /\ b.dueDate # NoDate) => a.dueDate <= b.dueDate

\* C29: what sortByPriority returns holds the tasks of the list it was handed,
\* each once, with absent priorities after concrete ones and by descending
\* id, and concrete priorities in the order Critical, High, Medium, Low, equal
\* ones by ascending due date with the tasks without a due date last.
C29_SortByPriorityOrder ==
    shown.by = "sortByPriority" =>
        /\ Len(shown.tasks) = Len(listed)
        /\ Range(shown.tasks) = Range(listed)
        /\ \A i \in 1..Len(shown.tasks), j \in 1..Len(shown.tasks) :
              i < j => MayPrecede(shown.tasks[i], shown.tasks[j])

\* A list of three was sorted that held a task without priority in front, and
\* two tasks of one priority with the later due date first.
C29_MixedListSorted ==
    /\ shown.by = "sortByPriority"
    /\ Len(listed) = 3
    /\ listed[1].priority = Null
    /\ listed[2].priority = listed[3].priority /\ listed[2].priority # Null
    /\ listed[2].dueDate = 2 /\ listed[3].dueDate = 1

\* The ids of a task list.
IdsOf(tasks) == { tasks[i].id : i \in 1..Len(tasks) }

\* The subtree of task t within a list: t, its children present in the list,
\* and theirs.
SubtreeIn(tasks, t) ==
    LET RECURSIVE grow(_)
        grow(found) ==
            LET more == found \cup
                        { c \in IdsOf(tasks) :
                            \E i \in 1..Len(tasks) :
                                tasks[i].id \in found /\ c \in Range(tasks[i].childTaskIds) }
            IN  IF more = found THEN found ELSE grow(more)
    IN  grow({t})

\* C30: what getTasksHierarchical returns holds the tasks of the list it was
\* handed, each once; every task is immediately followed by the rest of its
\* subtree; and a task whose parent is not in the list stands after every
\* subtree of a root.
C30_DisplayOrderIsDepthFirst ==
    shown.by = "getTasksHierarchical" =>
        LET out == shown.tasks
            rooted == UNION { SubtreeIn(listed, listed[i].id) :
                                i \in { k \in 1..Len(listed) :
                                          listed[k].parentTaskId = NoParent } }
        IN  /\ Len(out) = Len(listed)
            /\ Range(out) = Range(listed)
            /\ \A i \in 1..Len(out) :
                  LET size == Cardinality(SubtreeIn(listed, out[i].id))
                  IN  /\ i + size - 1 <= Len(out)
                      /\ { out[k].id : k \in i..(i + size - 1) }
                            = SubtreeIn(listed, out[i].id)
            /\ \A i \in 1..Len(out), j \in 1..Len(out) :
                  ( /\ out[i].id \in rooted
                    /\ out[j].parentTaskId # NoParent
                    /\ out[j].parentTaskId \notin IdsOf(listed) ) => i < j

\* Sequence a is a prefix of sequence b.
IsPrefix(a, b) == Len(a) <= Len(b) /\ a = SubSeq(b, 1, Len(a))

\* C31: the notes a task had when the last operation was issued are a prefix
\* of the notes it has now, for every task the operation has not erased; as
\* this holds of every step, it holds between any earlier and later state.
C31_NotesOnlyGrow ==
    \A t \in DOMAIN pre.store :
        Has(store, t) => IsPrefix(pre.store[t].notes, store[t].notes)

\* C32: when importData returns, the undo list and the redo list are empty,
\* and an undo issued right after an import ends with 'Nothing to undo' and
\* leaves the records as imported.
C32_ImportResetsHistory ==
    /\ Returned("import") => undoStack = <<>> /\ redoStack = <<>>
    /\ (last.op = "undo" /\ pre.last.op = "import" /\ pre.last.outcome = "ok")
          => last.outcome = "NothingToUndo" /\ store = pre.store

\* C33: the operation issued last has come to an end (none of its walks went
\* on without end), and so does a filter issued now, whatever it asks for.
C33_EveryOperationTerminates ==
    /\ last.outcome # "Hangs"
    /\ \A filters \in FilterInputs : filterTasks(store, filters).outcome # "diverges"

\* Calls c and d have both returned, each created a child of task P, and each
\* had read P's record before the other saved it: neither copy held the
\* other's id.
BothReadBeforeEitherSaved(c, d, P) ==
    /\ c # d
    /\ calls[c].at = "returned" /\ calls[d].at = "returned"
    /\ calls[c].task.parentTaskId = P /\ calls[d].task.parentTaskId = P
    /\ calls[d].task.id \notin Range(calls[c].parent.childTaskIds)
    /\ calls[c].task.id \notin Range(calls[d].parent.childTaskIds)

\* Task t names parent P, and P's childTaskIds does not hold t.
MissingFromParent(t, P) ==
    /\ Has(store, t) /\ store[t].parentTaskId = P
    /\ Has(store, P) /\ t \notin Range(store[P].childTaskIds)

\* C34: when two creates under one parent have each read the parent's record
\* before the other saved it, then once both have returned the id of one of
\* the two children is missing from the parent's childTaskIds, although that
\* child's parentTaskId names the parent.
C34_OverlappingCreatesLoseChild ==
    \A c \in Callers, d \in Callers, P \in DOMAIN store :
        BothReadBeforeEitherSaved(c, d, P) =>
            \/ MissingFromParent(calls[c].task.id, P)
            \/ MissingFromParent(calls[d].task.id, P)

\* Two creates under one parent overlapped in that way and have returned.
C34_ChildLostReached ==
    \E c \in Callers, d \in Callers, P \in DOMAIN store :
        /\ BothReadBeforeEitherSaved(c, d, P)
        /\ MissingFromParent(calls[c].task.id, P)

\* The overlapping calls that have been given an id by getNextId.
Numbered == { c \in DOMAIN calls : calls[c].at \notin {"called", "validated"} }

\* C39: createTask calls that overlap are given different ids, none of them
\* the id of a stored task created before, and the counter has advanced by
\* one for each id given (it stood at 2 when the calls were made).
C39_OverlappingCreatesGetDistinctIds ==
    calls # <<>> =>
        /\ \A c \in Numbered, d \in Numbered :
              c # d => calls[c].task.id # calls[d].task.id
        /\ \A c \in Numbered : calls[c].task.id >= 2
        /\ nextId = 2 + Cardinality(Numbered)
        /\ \A c \in Numbered :
              calls[c].at \notin {"numbered"} => store[calls[c].task.id] = calls[c].task

\* Two calls have both been given their ids before either saved its task.
C39_BothNumberedBeforeEitherSaved ==
    /\ calls # <<>>
    /\ \E c \in Numbered, d \in Numbered :
          c # d /\ calls[c].at = "numbered" /\ calls[d].at = "numbered"

\* C35: right after update(id, fields) and the undo that follows it, every
\* stored record is what it was when the update was issued.
C35_UndoOfUpdateRestoresEveryRecord ==
    (roundTrip.op.op = "update" /\ roundTrip.steps = 1) => store = roundTrip.start

\* C36: every id in the childTaskIds of a stored, non-deleted task is the id
\* of a stored task that is not deleted.
C36_ListedChildrenAreLive ==
    \A t \in DOMAIN store :
        ~store[t].deleted =>
            \A c \in Range(store[t].childTaskIds) : Has(store, c) /\ ~store[c].deleted

\* C37: right after delete(id, cascade=false) of a task with children and the
\* undo that follows it, id is not deleted, and every task that was in its
\* childTaskIds before the delete is in them, is stored and has id as parent.
C37_UndoOfKeepChildrenDelete ==
    LET id == roundTrip.op.id
        before == roundTrip.start
    IN  ( /\ roundTrip.op.op = "delete" /\ ~roundTrip.op.arg /\ roundTrip.steps = 1
          /\ before[id].childTaskIds # <<>> )
        => /\ Has(store, id) /\ ~store[id].deleted
           /\ \A c \in Range(before[id].childTaskIds) :
                 /\ c \in Range(store[id].childTaskIds)
                 /\ Has(store, c) /\ store[c].parentTaskId = id

\* C38: an undo issued while the undo list holds an action succeeds and
\* leaves the list one action shorter, so n undo calls empty a list of n.
C38_UndoMakesProgress ==
    (last.op = "undo" /\ pre.undoStack # <<>>)
        => /\ last.outcome = "ok"
           /\ Len(undoStack) = Len(pre.undoStack) - 1

\* C40: importing the export of the current state leaves every stored
\* record, soft-deleted ones included, and the id counter as they were.
C40_ImportOfExportIsIdentity ==
    LET before == [store |-> pre.store, nextId |-> pre.nextId,
                   undoStack |-> pre.undoStack, redoStack |-> pre.redoStack]
    IN  (last.op = "import" /\ last.arg = exportData(before))
            => (store = pre.store /\ nextId = pre.nextId)

====
